---- MODULE Spec2Model ----
(***************************************************************************)
(* Model of the ipaddr-from-str crate (src/src/lib.rs):                    *)
(*   is_ipaddrv4(input)   - the dotted-quad classifier (regex + u8 parse)  *)
(*   get_ipaddr(hostname) - literal parse or name resolution               *)
(* A string is a sequence of characters; a character is a one-token        *)
(* string. Option and Result values are records with a "tag" field.        *)
(***************************************************************************)
EXTENDS Integers, Sequences, FiniteSets, TLC

\* ------------------------------------------------------------ bounds
\* the longest dotted input has MaxComponents components
MaxComponents == 5

\* ------------------------------------------------------------ characters
\* "U+0663" is ARABIC-INDIC DIGIT THREE: a Unicode decimal digit (class Nd)
\* that is not an ASCII digit.
AsciiDigits == {"0", "1", "2", "5", "6"}
UnicodeDigits == AsciiDigits \cup {"U+0663"}

\* char::to_digit(10) of an ASCII digit
DigitVal(c) ==
  CASE c = "0" -> 0 [] c = "1" -> 1 [] c = "2" -> 2 [] c = "5" -> 5 [] c = "6" -> 6

NoneV == [tag |-> "None"]
Some(v) == [tag |-> "Some", val |-> v]
Ok(v) == [tag |-> "Ok", val |-> v]
Err(type, cause) == [tag |-> "Err", type |-> type, cause |-> cause]
Panic == [tag |-> "panic"]
Return(v) == [tag |-> "return", val |-> v]

\* ------------------------------------------------------------ the pattern
\* r"^(\d{1,3})\.(\d{1,3})\.(\d{1,3})\.(\d{1,3})$"
GroupCount == 4
RepMin == 1
RepMax == 3
PatternSource ==
  [anchorStart |-> TRUE, groups |-> GroupCount, min |-> RepMin, max |-> RepMax,
   sep |-> ".", anchorEnd |-> TRUE]

\* Regex::new: a syntax error for a repetition range {m,n} with m > n, else the
\* compiled pattern
RegexNew(src) ==
  IF src.min > src.max \/ src.groups < 1
  THEN Err("regex::Error", "Syntax")
  ELSE Ok(src)

\* Result::unwrap
Unwrap(r) == IF r.tag = "Ok" THEN Return(r.val) ELSE Panic

\* \d of the regex crate is Unicode-aware: any character of class Nd
ClassD(c) == c \in UnicodeDigits

\* $ without the multi-line flag: only the very end of the haystack
AtEndOrNewline(s, i) == i = Len(s) + 1 \/ (i = Len(s) /\ s[i] = "\n")
AtEnd(s, i) == i = Len(s) + 1

\* the length of the run of \d characters at i, at most max long (the greedy
\* \d{min,max}; the character after a group is "." or the end, neither a \d,
\* so no shorter repetition can succeed where the longest fails)
RECURSIVE DigitRun(_, _, _)
DigitRun(s, i, max) ==
  IF max = 0 \/ i > Len(s) \/ ~ClassD(s[i]) THEN 0
  ELSE 1 + DigitRun(s, i + 1, max - 1)

\* groups g.. of the pattern matched at i: Some(<<capture, ...>>) or None
RECURSIVE MatchGroups(_, _, _, _)
MatchGroups(re, s, i, g) ==
  LET k == DigitRun(s, i, re.max)
      j == i + k
  IN IF k < re.min THEN NoneV
     ELSE IF g = re.groups
          THEN IF AtEnd(s, j) THEN Some(<<SubSeq(s, i, j - 1)>>) ELSE NoneV
          ELSE IF j <= Len(s) /\ s[j] = re.sep
               THEN LET rest == MatchGroups(re, s, j + 1, g + 1)
                    IN IF rest.tag = "None" THEN NoneV
                       ELSE Some(<<SubSeq(s, i, j - 1)>> \o rest.val)
               ELSE NoneV

\* RE.captures_iter(input).next(): the pattern starts with ^, so the only
\* match there can be starts at the first character
Captures(re, s) == MatchGroups(re, s, 1, 1)

\* ------------------------------------------------------------ u8
U8Max == 255

\* the checked accumulation of u8::from_str: Err on a character that is not an
\* ASCII digit and on overflow
RECURSIVE ParseDigits(_, _, _)
ParseDigits(s, i, acc) ==
  IF i > Len(s) THEN Ok(acc)
  ELSE IF s[i] \notin AsciiDigits THEN Err("ParseIntError", "InvalidDigit")
  ELSE LET v == acc * 10 + DigitVal(s[i])
       IN IF v > U8Max THEN Err("ParseIntError", "PosOverflow")
          ELSE ParseDigits(s, i + 1, v)

\* str::parse::<u8>: an optional "+", then at least one ASCII digit
ParseU8(s) ==
  LET body == IF Len(s) > 0 /\ s[1] = "+" THEN Tail(s) ELSE s
  IN IF Len(body) = 0 THEN Err("ParseIntError", "Empty")
     ELSE ParseDigits(body, 1, 0)

\* .parse::<u8>().unwrap(): what a component parse would be were the error
\* not dropped
parse_u8_unwrap(x) ==
  LET r == ParseU8(x) IN IF r.tag = "Ok" THEN Return(Some(r.val)) ELSE Panic
\* |x| x.as_str().parse::<u8>().ok()
parse_u8_ok(x) ==
  LET r == ParseU8(x) IN Return(IF r.tag = "Ok" THEN Some(r.val) ELSE NoneV)

\* ------------------------------------------------------------ is_ipaddrv4
\* the body of is_ipaddrv4 once RE has been dereferenced to `re`
Classify(re, input) ==
  LET m == Captures(re, input)
  IN IF m.tag = "Some"
     THEN LET cs == [g \in 1..Len(m.val) |-> parse_u8_ok(m.val[g])]
          IN IF \E g \in DOMAIN cs : cs[g].tag = "panic" THEN Panic
             ELSE Return(\A g \in DOMAIN cs : cs[g].val.tag = "Some")
     ELSE Return(FALSE)

\* ------------------------------------------------------------ IpAddr::from_str
\* Parser::read_number(10, Some(3), allow_zero_prefix = false) of std::net for
\* an octet: ASCII digits, at most three, the value checked against u8, and
\* (std since 1.53) no leading zero on a number of two or more digits. Std
\* before 1.53 reads the same numbers and accepts the leading zeros.
RECURSIVE ReadDigits(_, _, _, _)
ReadDigits(s, i, acc, n) ==
  IF i > Len(s) \/ s[i] \notin AsciiDigits THEN Some([val |-> acc, count |-> n, next |-> i])
  ELSE LET v == acc * 10 + DigitVal(s[i])
       IN IF v > U8Max \/ n + 1 > 3 THEN NoneV
          ELSE ReadDigits(s, i + 1, v, n + 1)

ReadNumber(s, i, zeroPrefixRejected) ==
  LET r == ReadDigits(s, i, 0, 0)
  IN IF r.tag = "None" THEN NoneV
     ELSE IF r.val.count = 0 THEN NoneV
     ELSE IF zeroPrefixRejected /\ s[i] = "0" /\ r.val.count > 1 THEN NoneV
     ELSE r

\* Parser::read_ipv4_addr: four numbers, a "." before all but the first
RECURSIVE ReadOctets(_, _, _, _)
ReadOctets(s, i, g, zeroPrefixRejected) ==
  LET r == ReadNumber(s, i, zeroPrefixRejected)
  IN IF r.tag = "None" THEN NoneV
     ELSE IF g = GroupCount THEN Some([octets |-> <<r.val.val>>, next |-> r.val.next])
     ELSE IF r.val.next <= Len(s) /\ s[r.val.next] = "."
          THEN LET rest == ReadOctets(s, r.val.next + 1, g + 1, zeroPrefixRejected)
               IN IF rest.tag = "None" THEN NoneV
                  ELSE Some([octets |-> <<r.val.val>> \o rest.val.octets,
                             next |-> rest.val.next])
          ELSE NoneV

\* Parser::read_ipv6_addr, for the IPv6 texts of the model's inputs: "::"
\* followed by at most one group of one to four hexadecimal digits
ReadIpv6(s) ==
  /\ Len(s) >= 2
  /\ s[1] = ":" /\ s[2] = ":"
  /\ Len(s) - 2 <= 4
  /\ \A i \in 3..Len(s) : s[i] \in AsciiDigits

V4(octets) == [family |-> "V4", octets |-> octets]
V6(text) == [family |-> "V6", text |-> text]

\* IpAddr::from_str: the whole input is an IPv4 or an IPv6 address
IpAddr_from_str(s, zeroPrefixRejected) ==
  LET r == ReadOctets(s, 1, 1, zeroPrefixRejected)
  IN IF r.tag = "Some" /\ r.val.next = Len(s) + 1 THEN Ok(V4(r.val.octets))
     ELSE IF ReadIpv6(s) THEN Ok(V6(s))
     ELSE Err("AddrParseError", "Ip")

\* ------------------------------------------------------------ lookup_host
\* what the system resolver (getaddrinfo) can answer for a name
Addrs == {V4(<<127, 0, 0, 1>>), V6(<<":", ":", "1">>)}
AddrLists ==
  {<<>>} \cup {<<a>> : a \in Addrs} \cup {<<a, b>> : a \in Addrs, b \in Addrs}
ResolverAnswers ==
  {Ok(l) : l \in AddrLists} \cup
  {Err("LookupError", "NoSuchHost"), Err("io::Error", "Transport")}

\* dns_lookup::lookup_host(host) -> io::Result<Vec<IpAddr>>: the addresses as
\* getaddrinfo gave them; a LookupError of getaddrinfo is turned into an
\* io::Error before it is returned
lookup_host(host, answer) ==
  IF answer.tag = "Ok" THEN answer
  ELSE Err("io::Error", answer.cause)

\* ------------------------------------------------------------ the error enum
\* the three From impls of IpaddrConversionError, chosen by the type of the
\* error `?` is applied to
FromError(e) ==
  CASE e.type = "LookupError" -> [kind |-> "LookupError", cause |-> e.cause]
    [] e.type = "AddrParseError" -> [kind |-> "AddrParseError", cause |-> e.cause]
    [] e.type = "io::Error" -> [kind |-> "IoError", cause |-> e.cause]

\* ------------------------------------------------------------ lazy_static RE
\* lazy_static's Lazy is a cell and a Once; the cell holds None until the
\* initialiser has run. Deref of RE by a single caller in Once state o and
\* with the cell holding c: call_once(|| cell = Some(Regex::new(..).unwrap()))
\* and then the read of the cell
Deref(o, c) ==
  IF o = "COMPLETE" THEN [once |-> o, cell |-> c, built |-> 0, value |-> Return(c.val)]
  ELSE IF o = "INCOMPLETE"
  THEN LET r == Unwrap(RegexNew(PatternSource))
       IN IF r.tag = "panic"
          THEN [once |-> "POISONED", cell |-> c, built |-> 0, value |-> Panic]
          ELSE [once |-> "COMPLETE", cell |-> Some(r.val), built |-> 1, value |-> r]
  ELSE [once |-> o, cell |-> c, built |-> 0, value |-> Panic]

\* a classifier that answers false while the pattern is being set up
is_ipaddrv4_cold(o, c, input) ==
  LET d == Deref(o, c)
  IN [once |-> d.once, cell |-> d.cell, built |-> d.built,
      outcome |-> IF d.value.tag = "panic" THEN Panic
                  ELSE IF o # "COMPLETE" THEN Return(FALSE)
                  ELSE Classify(d.value.val, input)]
\* is_ipaddrv4(input) called with the Once in state o and the cell of RE holding c
is_ipaddrv4(o, c, input) ==
  LET d == Deref(o, c)
  IN [once |-> d.once, cell |-> d.cell, built |-> d.built,
      outcome |-> IF d.value.tag = "panic" THEN Panic
                  ELSE Classify(d.value.val, input)]

\* ------------------------------------------------------------ get_ipaddr
ResultOf(r) == IF r.tag = "Ok" THEN r ELSE [tag |-> "Err", err |-> FromError(r)]

RECURSIVE Dedup(_)
Dedup(l) ==
  IF l = <<>> THEN <<>>
  ELSE LET front == Dedup(SubSeq(l, 1, Len(l) - 1))
           x == l[Len(l)]
       IN IF \E i \in DOMAIN front : front[i] = x THEN front ELSE Append(front, x)

\* a literal the parser rejects is handed to the resolver
get_ipaddr_fallback(hostname, literal, zeroPrefixRejected, answer) ==
  LET p == IpAddr_from_str(hostname, zeroPrefixRejected)
  IN IF literal /\ p.tag = "Ok"
     THEN [result |-> Ok(<<p.val>>), parsed |-> <<hostname>>, looked |-> <<>>]
     ELSE [result |-> ResultOf(lookup_host(hostname, answer)),
           parsed |-> IF literal THEN <<hostname>> ELSE <<>>,
           looked |-> <<hostname>>]
\* the resolver's addresses with the repeated ones dropped
get_ipaddr_dedup(hostname, literal, zeroPrefixRejected, answer) ==
  IF literal
  THEN [result |-> ResultOf(LET p == IpAddr_from_str(hostname, zeroPrefixRejected)
                            IN IF p.tag = "Ok" THEN Ok(<<p.val>>) ELSE p),
        parsed |-> <<hostname>>, looked |-> <<>>]
  ELSE LET l == lookup_host(hostname, answer)
       IN [result |-> IF l.tag = "Ok" THEN Ok(Dedup(l.val)) ELSE ResultOf(l),
           parsed |-> <<>>, looked |-> <<hostname>>]
\* a failed lookup is tried a second time
get_ipaddr_retry(hostname, literal, zeroPrefixRejected, answer) ==
  IF literal
  THEN [result |-> ResultOf(LET p == IpAddr_from_str(hostname, zeroPrefixRejected)
                            IN IF p.tag = "Ok" THEN Ok(<<p.val>>) ELSE p),
        parsed |-> <<hostname>>, looked |-> <<>>]
  ELSE LET l == lookup_host(hostname, answer)
       IN [result |-> ResultOf(l), parsed |-> <<>>,
           looked |-> IF l.tag = "Ok" THEN <<hostname>> ELSE <<hostname, hostname>>]
\* the literal parser is tried on every input, the classifier's verdict unused
get_ipaddr_parse_first(hostname, literal, zeroPrefixRejected, answer) ==
  LET p == IpAddr_from_str(hostname, zeroPrefixRejected)
  IN IF p.tag = "Ok"
     THEN [result |-> Ok(<<p.val>>), parsed |-> <<hostname>>, looked |-> <<>>]
     ELSE [result |-> ResultOf(lookup_host(hostname, answer)),
           parsed |-> <<hostname>>, looked |-> <<hostname>>]
\* the body of get_ipaddr after is_ipaddrv4(hostname) returned `literal`: the
\* result, and the arguments given to IpAddr::from_str and to lookup_host
get_ipaddr(hostname, literal, zeroPrefixRejected, answer) ==
  IF literal
  THEN [result |-> ResultOf(LET p == IpAddr_from_str(hostname, zeroPrefixRejected)
                            IN IF p.tag = "Ok" THEN Ok(<<p.val>>) ELSE p),
        parsed |-> <<hostname>>, looked |-> <<>>]
  ELSE [result |-> ResultOf(lookup_host(hostname, answer)),
        parsed |-> <<>>, looked |-> <<hostname>>]

\* ------------------------------------------------------------ inputs
PlainComponents == {<<"0">>, <<"2", "5", "5">>}
OddComponents ==
  {<<>>, <<"0", "1">>, <<"0", "0", "0">>, <<"2", "5", "6">>, <<"0", "0", "0", "0">>,
   <<"U+0663">>, <<" ", "0">>, <<"0", "\n">>}
Components == PlainComponents \cup OddComponents

RECURSIVE Join(_, _)
Join(cs, n) ==
  IF n = 0 THEN <<>>
  ELSE IF n = 1 THEN cs[1]
  ELSE Join(cs, n - 1) \o <<".">> \o cs[n]

\* the dotted strings of n components, those at the positions P odd
DottedAt(n, P) ==
  {Join([i \in 1..n |-> IF i \in P THEN o[i] ELSE c[i]], n) :
     o \in [P -> OddComponents], c \in [(1..n) \ P -> PlainComponents]}

\* up to MaxComponents components, all plain but at most one
Dotted ==
  UNION {UNION {DottedAt(n, P) : P \in {{}} \cup {{i} : i \in 1..n}}
         : n \in 0..MaxComponents}

Names ==
  {<<"l", "o", "c", "a", "l", "h", "o", "s", "t">>, <<":", ":", "1">>,
   <<"f", "r", "e", "d", ".", "b", "a", "r", "n", "e", "y", ".", "w", "i", "l", "l",
     ".", "m", "o", "r", "k">>,
   <<"0", "0", "0", ".", "0", "0", "0", ".", "0", "0", "0", ".", "0", "0", "0">>,
   <<"2", "5", "6", ".", "2", "5", "6", ".", "2", "5", "6", ".", "2", "5", "6">>,
   <<"+", "1", ".", "0", ".", "0", ".", "0">>,
   <<"0", ".", "0", ".", "0", ".", "0", " ">>,
   <<"0", ".", "0", ".", "a", ".", "0">>}

Inputs == Dotted \cup Names

Samples ==
  {<<"0", ".", "0", ".", "0", ".", "0">>, <<"0", "1", ".", "0", ".", "0", ".", "0">>,
   <<"2", "5", "6", ".", "0", ".", "0", ".", "0">>,
   <<"l", "o", "c", "a", "l", "h", "o", "s", "t">>}

\* the threads of the concurrent first use
NThreads == 2
Threads == 1..NThreads

\* ------------------------------------------------------------ state
VARIABLES
  zeroPrefixRejected, \* the std of the build rejects octets with a leading zero
  once,               \* the Once of the lazy static RE
  RE,                 \* the cell of the lazy static RE: None or Some(pattern)
  built,              \* how many times Regex::new has run
  pc,                 \* "idle", or "returned": a call has returned to its caller
  op, arg,            \* the call that returned and its argument
  verdict,            \* what is_ipaddrv4 gave in that call
  result,             \* what get_ipaddr returned
  parsed, looked,     \* the arguments IpAddr::from_str and lookup_host were given
  answered,           \* what the resolver answered, when it was asked
  log,                \* the verdicts callers have seen: the argument, whether
                      \* RE was initialised when the call began, the outcome
  tpc, targ, tverdict \* per thread: its place in is_ipaddrv4, argument, verdict

vars ==
  <<zeroPrefixRejected, once, RE, built, pc, op, arg, verdict, result, parsed,
    looked, answered, log, tpc, targ, tverdict>>
seqVars == <<pc, op, arg, verdict, result, parsed, looked, answered>>
threadVars == <<tpc, targ, tverdict>>

Init ==
  /\ zeroPrefixRejected \in BOOLEAN
  /\ once = "INCOMPLETE"
  /\ RE = NoneV
  /\ built = 0
  /\ pc = "idle"
  /\ op = "none"
  /\ arg = <<>>
  /\ verdict = NoneV
  /\ result = NoneV
  /\ parsed = <<>>
  /\ looked = <<>>
  /\ answered = NoneV
  /\ log = {}
  /\ tpc = [t \in Threads |-> "idle"]
  /\ targ = [t \in Threads |-> <<>>]
  /\ tverdict = [t \in Threads |-> NoneV]

\* ------------------------------------------------------------ one caller
\* a call of is_ipaddrv4(s), from entry to return
CallIsIpaddrv4(s, record) ==
  /\ pc = "idle"
  /\ LET r == is_ipaddrv4(once, RE, s)
     IN /\ once' = r.once
        /\ RE' = r.cell
        /\ built' = built + r.built
        /\ verdict' = r.outcome
        /\ log' = IF record
                  THEN log \cup {[arg |-> s, warm |-> once = "COMPLETE",
                                  outcome |-> r.outcome]}
                  ELSE log
  /\ pc' = "returned"
  /\ op' = "is_ipaddrv4"
  /\ arg' = s
  /\ result' = NoneV
  /\ parsed' = <<>>
  /\ looked' = <<>>
  /\ answered' = NoneV
  /\ UNCHANGED <<zeroPrefixRejected, threadVars>>

\* a call of get_ipaddr(s), from entry to return, the resolver answering
\* `answer` if it is asked
CallGetIpaddr(s, answer, record) ==
  /\ pc = "idle"
  /\ LET r == is_ipaddrv4(once, RE, s)
         b == IF r.outcome.tag = "panic"
              THEN [result |-> Panic, parsed |-> <<>>, looked |-> <<>>]
              ELSE get_ipaddr(s, r.outcome.val, zeroPrefixRejected, answer)
     IN /\ once' = r.once
        /\ RE' = r.cell
        /\ built' = built + r.built
        /\ verdict' = r.outcome
        /\ log' = IF record
                  THEN log \cup {[arg |-> s, warm |-> once = "COMPLETE",
                                  outcome |-> r.outcome]}
                  ELSE log
        /\ result' = b.result
        /\ parsed' = b.parsed
        /\ looked' = b.looked
        /\ answered' = IF b.looked = <<>> THEN NoneV ELSE answer
  /\ pc' = "returned"
  /\ op' = "get_ipaddr"
  /\ arg' = s
  /\ UNCHANGED <<zeroPrefixRejected, threadVars>>

\* the caller takes the returned value; nothing of the call is kept
Drop ==
  /\ pc = "returned"
  /\ pc' = "idle"
  /\ op' = "none"
  /\ arg' = <<>>
  /\ verdict' = NoneV
  /\ result' = NoneV
  /\ parsed' = <<>>
  /\ looked' = <<>>
  /\ answered' = NoneV
  /\ UNCHANGED <<zeroPrefixRejected, once, RE, built, log, threadVars>>

Next ==
  \/ pc = "idle" /\ \E s \in Inputs : CallIsIpaddrv4(s, FALSE)
  \/ pc = "idle" /\ \E s \in Inputs : \E a \in ResolverAnswers : CallGetIpaddr(s, a, FALSE)
  \/ Drop

Spec == Init /\ [][Next]_vars

\* repeated calls on a few strings, every verdict logged
NextRepeat ==
  \/ pc = "idle" /\ \E s \in Samples : CallIsIpaddrv4(s, TRUE)
  \/ pc = "idle" /\ \E s \in Samples : \E a \in ResolverAnswers : CallGetIpaddr(s, a, TRUE)
  \/ Drop

SpecRepeat == Init /\ [][NextRepeat]_vars

\* ------------------------------------------------------------ threads
\* Once::call_once on observing state o: run the initialiser, wait for the
\* thread that runs it, or go on to the read
OnceStepUnguarded(o) ==
  CASE o = "INCOMPLETE" -> "run" [] o = "RUNNING" -> "run"
    [] o = "COMPLETE" -> "skip" [] OTHER -> "panic"
OnceStep(o) ==
  CASE o = "INCOMPLETE" -> "run" [] o = "RUNNING" -> "wait"
    [] o = "COMPLETE" -> "skip" [] OTHER -> "panic"

\* thread t enters is_ipaddrv4(s)
TEnter(t, s) ==
  /\ tpc[t] = "idle"
  /\ tpc' = [tpc EXCEPT ![t] = "call_once"]
  /\ targ' = [targ EXCEPT ![t] = s]
  /\ tverdict' = [tverdict EXCEPT ![t] = NoneV]
  /\ UNCHANGED <<zeroPrefixRejected, once, RE, built, log, seqVars>>

\* the compare-and-swap of call_once; a thread that finds RUNNING is parked
TCallOnce(t) ==
  /\ tpc[t] = "call_once"
  /\ OnceStep(once) # "wait"
  /\ once' = IF OnceStep(once) = "run" THEN "RUNNING" ELSE once
  /\ tpc' = [tpc EXCEPT ![t] = CASE OnceStep(once) = "run" -> "init"
                                 [] OnceStep(once) = "skip" -> "read"
                                 [] OTHER -> "done"]
  /\ tverdict' = [tverdict EXCEPT ![t] =
                    IF OnceStep(once) = "panic" THEN Panic ELSE NoneV]
  /\ UNCHANGED <<zeroPrefixRejected, RE, built, log, targ, seqVars>>

\* the initialiser: Regex::new(..).unwrap() stored in the cell of RE
TInit(t) ==
  /\ tpc[t] = "init"
  /\ LET r == Unwrap(RegexNew(PatternSource))
     IN /\ RE' = IF r.tag = "panic" THEN RE ELSE Some(r.val)
        /\ once' = IF r.tag = "panic" THEN "POISONED" ELSE once
        /\ tpc' = [tpc EXCEPT ![t] = IF r.tag = "panic" THEN "done" ELSE "publish"]
        /\ tverdict' = [tverdict EXCEPT ![t] = IF r.tag = "panic" THEN Panic ELSE NoneV]
  /\ built' = built + 1
  /\ UNCHANGED <<zeroPrefixRejected, log, targ, seqVars>>

\* the initialiser has returned: the Once is set COMPLETE, the waiters woken
TPublish(t) ==
  /\ tpc[t] = "publish"
  /\ once' = "COMPLETE"
  /\ tpc' = [tpc EXCEPT ![t] = "read"]
  /\ UNCHANGED <<zeroPrefixRejected, RE, built, log, targ, tverdict, seqVars>>

\* the read of the cell and the rest of is_ipaddrv4
TRead(t) ==
  /\ tpc[t] = "read"
  /\ tverdict' = [tverdict EXCEPT ![t] =
                    IF RE.tag = "Some" THEN Classify(RE.val, targ[t])
                    ELSE [tag |-> "uninit"]]
  /\ tpc' = [tpc EXCEPT ![t] = "done"]
  /\ UNCHANGED <<zeroPrefixRejected, once, RE, built, log, targ, seqVars>>

\* the caller takes the verdict
TReturn(t) ==
  /\ tpc[t] = "done"
  /\ tpc' = [tpc EXCEPT ![t] = "idle"]
  /\ targ' = [targ EXCEPT ![t] = <<>>]
  /\ tverdict' = [tverdict EXCEPT ![t] = NoneV]
  /\ UNCHANGED <<zeroPrefixRejected, once, RE, built, log, seqVars>>

NextThreads ==
  \E t \in Threads :
    \/ \E s \in Samples : TEnter(t, s)
    \/ TCallOnce(t)
    \/ TInit(t)
    \/ TPublish(t)
    \/ TRead(t)
    \/ TReturn(t)

SpecThreads == Init /\ [][NextThreads]_vars

\* ------------------------------------------------------------ properties
Returned(o) == pc = "returned" /\ op = o

\* the value of a string of ASCII digits read in base 10
RECURSIVE DecValue(_)
DecValue(d) ==
  IF d = <<>> THEN 0 ELSE 10 * DecValue(SubSeq(d, 1, Len(d) - 1)) + DigitVal(d[Len(d)])

\* D: one to three ASCII decimal digits, the number in 0..255
IsD(d) ==
  /\ Len(d) \in 1..3
  /\ \A i \in 1..Len(d) : d[i] \in AsciiDigits
  /\ DecValue(d) \in 0..255

\* the four parts of s around the dots at a < b < c
Parts(s, a, b, c) ==
  <<SubSeq(s, 1, a - 1), SubSeq(s, a + 1, b - 1), SubSeq(s, b + 1, c - 1),
    SubSeq(s, c + 1, Len(s))>>

DotTriples(s) ==
  LET dots == {i \in 1..Len(s) : s[i] = "."}
  IN {t \in dots \X dots \X dots :
        /\ t[1] < t[2] /\ t[2] < t[3]
        /\ \A g \in 1..4 : IsD(Parts(s, t[1], t[2], t[3])[g])}

\* the whole of s has the form D.D.D.D
IsDottedQuad(s) == DotTriples(s) # {}

\* the four numbers of a string of the form D.D.D.D
QuadOctets(s) ==
  LET t == CHOOSE x \in DotTriples(s) : TRUE
  IN [g \in 1..4 |-> DecValue(Parts(s, t[1], t[2], t[3])[g])]

HasComponent(s, c) ==
  \E i \in 1..Len(s) : \E j \in (i - 1)..Len(s) :
    /\ SubSeq(s, i, j) = c
    /\ (i = 1 \/ s[i - 1] = ".")
    /\ (j = Len(s) \/ s[j + 1] = ".")

\* C1: is_ipaddrv4(s) returns true if and only if the whole of s has the form
\* D.D.D.D, each D one to three ASCII digits with a value in 0..255.
C1_ClassifierIsDottedQuad ==
  Returned("is_ipaddrv4") =>
    /\ verdict.tag = "return"
    /\ verdict.val <=> IsDottedQuad(arg)

\* a string with a leading-zero component was accepted
C1_Witness ==
  /\ Returned("is_ipaddrv4")
  /\ HasComponent(arg, <<"0", "1">>)
  /\ verdict = Return(TRUE)

\* C2: when is_ipaddrv4(s) is true, get_ipaddr(s) returns Ok of exactly one
\* address, the IPv4 address of the four numbers of s; AddrParseError never
\* comes out.
C2_LiteralAlwaysParses ==
  (Returned("get_ipaddr") /\ verdict = Return(TRUE)) =>
    /\ result.tag = "Ok"
    /\ result.val = <<V4(QuadOctets(arg))>>

\* C3: when is_ipaddrv4(s) is true, get_ipaddr(s) never calls lookup_host,
\* whether the literal parse succeeds or fails.
C3_LiteralNeverLooksUp ==
  (Returned("get_ipaddr") /\ verdict = Return(TRUE)) =>
    /\ looked = <<>>
    /\ answered = NoneV

\* a classified literal that the parser rejected: still no lookup
C3_Witness ==
  /\ Returned("get_ipaddr")
  /\ verdict = Return(TRUE)
  /\ result.tag = "Err"
  /\ looked = <<>>

\* C4: when is_ipaddrv4(s) is false, get_ipaddr(s) gives s unchanged to
\* lookup_host and returns the sequence it yields as it is.
C4_LookupPassedThrough ==
  (Returned("get_ipaddr") /\ verdict = Return(FALSE)) =>
    /\ looked = <<arg>>
    /\ answered.tag = "Ok" => result = Ok(answered.val)

\* a resolver answer with a repeated address came back whole
C4_Witness ==
  /\ Returned("get_ipaddr")
  /\ verdict = Return(FALSE)
  /\ result.tag = "Ok"
  /\ Len(result.val) = 2
  /\ result.val[1] = result.val[2]

\* C5: every failure in get_ipaddr is an error value of the matching kind: a
\* parser rejection AddrParseError, no such host LookupError, a transport or
\* system error IoError; never a panic.
C5_ErrorKindsMatch ==
  Returned("get_ipaddr") =>
    /\ result.tag \in {"Ok", "Err"}
    /\ (parsed # <<>> /\ result.tag = "Err") => result.err.kind = "AddrParseError"
    /\ (answered.tag = "Err" /\ answered.cause = "NoSuchHost") =>
         (result.tag = "Err" /\ result.err.kind = "LookupError")
    /\ (answered.tag = "Err" /\ answered.cause = "Transport") =>
         (result.tag = "Err" /\ result.err.kind = "IoError")

\* C6: one call of get_ipaddr calls lookup_host at most once; when it fails the
\* error is returned with no second attempt, no use of the other path and no
\* addresses.
C6_NoRetryNoPartial ==
  Returned("get_ipaddr") =>
    /\ Len(looked) <= 1
    /\ answered.tag = "Err" =>
         /\ result.tag = "Err"
         /\ DOMAIN result = {"tag", "err"}
         /\ parsed = <<>>
         /\ looked = <<arg>>

\* the resolver failed and the call returned the error
C6_Witness ==
  /\ Returned("get_ipaddr")
  /\ answered.tag = "Err"
  /\ result.tag = "Err"

\* C7: is_ipaddrv4 returns a boolean for every input: neither the construction
\* of the pattern nor the u8 parse of a component panics.
C7_ClassifierNeverPanics ==
  /\ once # "POISONED"
  /\ Returned("is_ipaddrv4") => (verdict.tag = "return" /\ verdict.val \in BOOLEAN)

\* the pattern matched a non-ASCII digit and the call returned false
C7_Witness ==
  /\ Returned("is_ipaddrv4")
  /\ Captures(PatternSource, arg).tag = "Some"
  /\ \E i \in 1..Len(arg) : arg[i] = "U+0663"
  /\ verdict = Return(FALSE)

\* C8: is_ipaddrv4(s) gives the same result on every call for the same s,
\* whatever calls came before and whether or not RE was initialised.
C8_SameVerdictEveryCall ==
  \A p \in log : \A q \in log : p.arg = q.arg => p.outcome = q.outcome

\* one string classified before and after the pattern was initialised
C8_Witness ==
  \E p \in log : \E q \in log :
    p.arg = q.arg /\ ~p.warm /\ q.warm /\ p.outcome = Return(TRUE)

\* every thread that reads RE finds the Once COMPLETE and the finished pattern
\* in its cell, which has been built once
InitialisedOnce ==
  /\ built <= 1
  /\ \A t \in Threads :
       /\ tpc[t] = "read" => (once = "COMPLETE" /\ RE = Some(PatternSource))
       /\ tpc[t] = "done" => tverdict[t] = Classify(PatternSource, targ[t])

\* C9: under concurrent first calls RE is constructed exactly once, no caller
\* sees it uninitialised or partly built, it never changes once set, and every
\* caller gets the verdict of a sequential run.
C9_ConcurrentFirstUse ==
  /\ []InitialisedOnce
  /\ [][RE.tag = "Some" => RE' = RE]_vars

\* one thread is inside the initialiser while another has arrived at call_once
C9_Witness ==
  \E t \in Threads : \E u \in Threads \ {t} :
    /\ tpc[t] = "publish"
    /\ tpc[u] = "call_once"
    /\ once = "RUNNING"

\* C10: the path of get_ipaddr(s) is decided by is_ipaddrv4(s) alone:
\* AddrParseError only when it is true, LookupError or IoError only when it is
\* false, and a rejected string goes to lookup_host and never to the parser.
C10_PathDecidedByClassifier ==
  Returned("get_ipaddr") =>
    /\ (result.tag = "Err" /\ result.err.kind = "AddrParseError") =>
         verdict = Return(TRUE)
    /\ (result.tag = "Err" /\ result.err.kind \in {"LookupError", "IoError"}) =>
         verdict = Return(FALSE)
    /\ verdict = Return(FALSE) => (parsed = <<>> /\ looked = <<arg>>)
    /\ verdict = Return(TRUE) => (parsed = <<arg>> /\ looked = <<>>)

\* the IPv6 literal "::1" went to lookup_host, not to the parser
C10_Witness ==
  /\ Returned("get_ipaddr")
  /\ arg = <<":", ":", "1">>
  /\ parsed = <<>>
  /\ looked = <<arg>>

====
